---- MODULE Spec2Model ----
(***************************************************************************)
(* Model of the process-documentation editor (App.tsx): the editor state   *)
(* and its handlers, the version helpers, and the paginated PDF export.    *)
(*                                                                         *)
(* Strings that the code parses or formats (names, versions) are sequences *)
(* of one-character strings.  Lengths on the page are in hundredths of a   *)
(* point, so that the A4/A6 sizes of the code are integers.                *)
(***************************************************************************)
EXTENDS Integers, Sequences, FiniteSets, TLC

\* ------------------------------------------------------------------ bounds
\* The editor: steps in a record, photos and texts in one step's buffer.
MaxSteps == 2
MaxPhotos == 1
MaxTexts == 1
\* Version bumps one editor run may make.
MaxBumps == 2
\* The export: steps of the exported record, and its photos and texts in all.
MaxPdfSteps == 2
MaxBlocks == 3
\* The version helpers: length of the input string, bumps applied in a row.
MaxVerLen == 4
MaxVerBumps == 2

\* ----------------------------------------------------------------- helpers
Null == <<>>
Some(x) == <<x>>
IsNull(o) == o = <<>>
Min2(a, b) == IF a <= b THEN a ELSE b

Str10 == <<"1", ".", "0">>

\* -------------------------------------------------------- strings, versions
Digits == {"0", "1", "2", "3", "4", "5", "6", "7", "8", "9"}

DigitVal(c) ==
  CASE c = "0" -> 0 [] c = "1" -> 1 [] c = "2" -> 2 [] c = "3" -> 3
    [] c = "4" -> 4 [] c = "5" -> 5 [] c = "6" -> 6 [] c = "7" -> 7
    [] c = "8" -> 8 [] c = "9" -> 9

DigitChar(n) ==
  CASE n = 0 -> "0" [] n = 1 -> "1" [] n = 2 -> "2" [] n = 3 -> "3"
    [] n = 4 -> "4" [] n = 5 -> "5" [] n = 6 -> "6" [] n = 7 -> "7"
    [] n = 8 -> "8" [] n = 9 -> "9"

\* String.prototype.trim: leading and trailing blanks removed.
RECURSIVE TrimLeft(_)
TrimLeft(str) ==
  IF str # <<>> /\ Head(str) = " " THEN TrimLeft(Tail(str)) ELSE str

RECURSIVE TrimRight(_)
TrimRight(str) ==
  IF str # <<>> /\ str[Len(str)] = " "
  THEN TrimRight(SubSeq(str, 1, Len(str) - 1))
  ELSE str

trim(str) == TrimRight(TrimLeft(str))

\* parseInt(digits, 10) of a non-empty digit string (leading zeros allowed).
RECURSIVE parseInt(_)
parseInt(ds) ==
  IF Len(ds) = 0 THEN 0
  ELSE 10 * parseInt(SubSeq(ds, 1, Len(ds) - 1)) + DigitVal(ds[Len(ds)])

\* `${n}` of a non-negative integer.
RECURSIVE NumToStr(_)
NumToStr(n) ==
  IF n < 10 THEN <<DigitChar(n)>>
  ELSE NumToStr(n \div 10) \o <<DigitChar(n % 10)>>

AllDigits(str) == \A k \in 1..Len(str) : str[k] \in Digits

\* The positions of "." that split str into two non-empty digit strings.
DotSplits(str) ==
  {k \in 2..(Len(str) - 1) :
     /\ str[k] = "."
     /\ AllDigits(SubSeq(str, 1, k - 1))
     /\ AllDigits(SubSeq(str, k + 1, Len(str)))}

\* /^\d+\.\d+$/.test(v)
VersionRegex(v) == DotSplits(v) # {}

\* n || d on a number: 0 (and NaN) is falsy.
OrElse(n, d) == IF n = 0 THEN d ELSE n

parseVersion(v) ==
  IF ~VersionRegex(v) THEN [major |-> 1, minor |-> 0]
  ELSE LET k == CHOOSE d \in DotSplits(v) : TRUE
       IN [major |-> OrElse(parseInt(SubSeq(v, 1, k - 1)), 1),
           minor |-> OrElse(parseInt(SubSeq(v, k + 1, Len(v))), 0)]

FormatVersion(major, minor) == NumToStr(major) \o <<".">> \o NumToStr(minor)

bumpVersion(v) ==
  LET pv == parseVersion(v)
  IN IF pv.minor < 9 THEN FormatVersion(pv.major, pv.minor + 1)
     ELSE FormatVersion(pv.major + 1, 0)

\* The versions k bumps away (at most) from the versions in vs.
RECURSIVE BumpReach(_, _)
BumpReach(vs, k) ==
  IF k = 0 THEN vs ELSE vs \cup BumpReach({bumpVersion(v) : v \in vs}, k - 1)

\* ------------------------------------------------------------- the record
\* StepData.done is optional: "undefined" until finishStep or loadProcess
\* sets it.  ProcessData | null and string | null are Null or Some(value).
NewStep(n) == [index |-> n, photos |-> <<>>, texts |-> <<>>, done |-> "undefined"]

StepEmpty(st) == Len(st.photos) = 0 /\ Len(st.texts) = 0

\* ----------------------------------------------------------- input domains
\* What the user types and picks in the editor.
NameInputs == {<<>>, <<" ">>, <<" ", "P">>}
VersionInputs == {<<" ">>, <<"1", ".", "8">>, <<"v", "2">>}
Times == {"t1"}
EditorPhotos == {"tall"}
EditorDrafts == {"", "short"}
TextIds == 1..(MaxTexts * (MaxSteps + 1))

\* Parsed JSON handed to loadProcess: a field that is absent (or of the wrong
\* type where the code tests the type) is Null.
RawStepPlain ==
  [index |-> Some(7), photos |-> Some(<<"tall">>),
   texts |-> Some(<<[id |-> Some(1), content |-> Null, important |-> "undefined"]>>),
   done |-> "undefined"]

RawStepBare == [index |-> Null, photos |-> Null, texts |-> Null, done |-> "true"]

LoadPayloads ==
  { [parses |-> FALSE, name |-> Null, version |-> Null, createdAt |-> Null,
     steps |-> Null],
    [parses |-> TRUE, name |-> Null, version |-> Some(Str10), createdAt |-> Null,
     steps |-> Some(<<>>)],
    [parses |-> TRUE, name |-> Some(<<"P">>), version |-> Some(Str10),
     createdAt |-> Null, steps |-> Null],
    [parses |-> TRUE, name |-> Some(<<"Q">>), version |-> Some(<<"0", ".", "9">>),
     createdAt |-> Some("t0"), steps |-> Some(<<RawStepPlain>>)],
    [parses |-> TRUE, name |-> Some(<<"Q">>), version |-> Null,
     createdAt |-> Null, steps |-> Some(<<>>)],
    [parses |-> TRUE, name |-> Some(<<"Q">>), version |-> Some(<<"2", ".", "x">>),
     createdAt |-> Some("t0"), steps |-> Some(<<RawStepBare, RawStepPlain>>)] }

\* ------------------------------------------------------------------- state
VARIABLES
  process,        \* ProcessData | null
  currentIndex,   \* index into process.steps (0-based, as in the code)
  pendingPhotos,  \* editor buffer: photos of the step being edited
  pendingTexts,   \* editor buffer: texts of the step being edited
  lastSnapshot,   \* string | null: the last finalized snapshot
  finalized,      \* export is allowed
  editedSince,    \* history: an edit has happened since finishProcess last completed
  pc,             \* exportPDF's position ("idle": no export running)
  s, p, i,        \* exportPDF's loop counters (1-based here)
  y,              \* exportPDF's cursor on the current page
  page,           \* the page drawing goes to
  pages,          \* pdf.getNumberOfPages()
  total,          \* the footer pass's total
  color, font,    \* the document's text colour and font weight
  ops,            \* what has been drawn, in drawing order
  vIn, vOut,      \* the version helpers: argument and result of the last call
  vBumps,         \* ... and the calls made
  loadOutcome,    \* history: how the last loadProcess call ended
  image, dims     \* scaleDims: the image handed to it and the size it returned

editorVars ==
  <<process, currentIndex, pendingPhotos, pendingTexts, lastSnapshot, finalized,
    editedSince>>
pdfVars == <<pc, s, p, i, y, page, pages, total, color, font, ops>>
verVars == <<vIn, vOut, vBumps>>
imgVars == <<image, dims>>
vars == <<editorVars, loadOutcome, pdfVars, verVars, imgVars>>

proc == process[1]

\* ------------------------------------------------------- editor: helpers
\* ensureIndices left out.
ensureIndices_mut(steps) == steps

ensureIndices(steps) == [k \in 1..Len(steps) |-> [steps[k] EXCEPT !.index = k]]

HasStep(steps, ci) == (ci + 1) \in 1..Len(steps)

\* const step = draft.steps[currentIndex]; if (step) { step.photos = ...; step.texts = ... }
WriteBuffer(steps, ci, pp, pt) ==
  IF HasStep(steps, ci)
  THEN [steps EXCEPT ![ci + 1].photos = pp, ![ci + 1].texts = pt]
  ELSE steps

\* The effect on [currentIndex, process]: the buffer is reloaded from the
\* step under the cursor, when there is one.
EffectBuffer(steps, ci, pp, pt) ==
  IF HasStep(steps, ci)
  THEN [photos |-> steps[ci + 1].photos, texts |-> steps[ci + 1].texts]
  ELSE [photos |-> pp, texts |-> pt]

canFinishStep == Len(pendingPhotos) > 0 /\ Len(pendingTexts) > 0

UsedIds ==
  {pendingTexts[k].id : k \in 1..Len(pendingTexts)}
    \cup (IF IsNull(process) THEN {}
          ELSE UNION {{proc.steps[a].texts[b].id : b \in 1..Len(proc.steps[a].texts)} :
                        a \in 1..Len(proc.steps)})

\* uid(): an id no text item carries yet.
uid == CHOOSE n \in TextIds : n \notin UsedIds /\ \A m \in TextIds \ UsedIds : n <= m

RemoveAt(seq, n) == SubSeq(seq, 1, n - 1) \o SubSeq(seq, n + 1, Len(seq))

\* JSON.stringify({ ...draft, createdAt: "X", version: "X" })
Snapshot(name, steps) == [name |-> name, steps |-> steps]

\* Every version an editor run starts from.
StartVersions ==
  {IF trim(v) = <<>> THEN Str10 ELSE trim(v) : v \in VersionInputs}
    \cup {IF ~IsNull(pl.version) /\ VersionRegex(pl.version[1]) THEN pl.version[1] ELSE Str10 :
            pl \in LoadPayloads}

\* --------------------------------------------------------- editor: handlers
startNew(nameInput, versionInput, now) ==
  /\ pc = "idle"
  /\ IsNull(process)
  /\ IF trim(nameInput) = <<>>
     THEN UNCHANGED editorVars
     ELSE /\ process' = Some([name |-> trim(nameInput),
                              version |-> IF trim(versionInput) = <<>> THEN Str10
                                          ELSE trim(versionInput),
                              createdAt |-> now,
                              steps |-> <<NewStep(1)>>])
          /\ currentIndex' = 0
          /\ pendingPhotos' = <<>>
          /\ pendingTexts' = <<>>
          /\ lastSnapshot' = Null
          /\ finalized' = FALSE
          /\ editedSince' = TRUE
  /\ UNCHANGED <<loadOutcome, pdfVars, verVars, imgVars>>

addText(draft, important) ==
  /\ pc = "idle"
  /\ ~IsNull(process)
  /\ Len(pendingTexts) < MaxTexts
  /\ IF draft = ""
     THEN UNCHANGED <<pendingTexts, editedSince>>
     ELSE /\ pendingTexts' =
               Append(pendingTexts, [id |-> uid, content |-> draft, important |-> important])
          /\ editedSince' = TRUE
  /\ UNCHANGED <<process, currentIndex, pendingPhotos, lastSnapshot, finalized,
                 loadOutcome, pdfVars, verVars, imgVars>>

removeText(id) ==
  /\ pc = "idle"
  /\ ~IsNull(process)
  /\ pendingTexts' = SelectSeq(pendingTexts, LAMBDA t : t.id # id)
  /\ editedSince' = TRUE
  /\ UNCHANGED <<process, currentIndex, pendingPhotos, lastSnapshot, finalized,
                 loadOutcome, pdfVars, verVars, imgVars>>

toggleImportant(id) ==
  /\ pc = "idle"
  /\ ~IsNull(process)
  /\ pendingTexts' =
       [k \in 1..Len(pendingTexts) |->
          IF pendingTexts[k].id = id
          THEN [pendingTexts[k] EXCEPT !.important = ~pendingTexts[k].important]
          ELSE pendingTexts[k]]
  /\ editedSince' = TRUE
  /\ UNCHANGED <<process, currentIndex, pendingPhotos, lastSnapshot, finalized,
                 loadOutcome, pdfVars, verVars, imgVars>>

onPhotoUpload(urls) ==
  /\ pc = "idle"
  /\ ~IsNull(process)
  /\ Len(pendingPhotos) + Len(urls) <= MaxPhotos
  /\ pendingPhotos' = pendingPhotos \o urls
  /\ editedSince' = TRUE
  /\ UNCHANGED <<process, currentIndex, pendingTexts, lastSnapshot, finalized,
                 loadOutcome, pdfVars, verVars, imgVars>>

removePhotoAt(n) ==
  /\ pc = "idle"
  /\ ~IsNull(process)
  /\ pendingPhotos' = RemoveAt(pendingPhotos, n)
  /\ editedSince' = TRUE
  /\ UNCHANGED <<process, currentIndex, pendingTexts, lastSnapshot, finalized,
                 loadOutcome, pdfVars, verVars, imgVars>>

\* commitStepEdits with finishStep's mutator.  draft.steps[currentIndex].done
\* throws when the cursor is past the last step: nothing is set then.
finishStep ==
  /\ pc = "idle"
  /\ ~IsNull(process)
  /\ Len(proc.steps) < MaxSteps
  /\ IF ~canFinishStep \/ ~HasStep(proc.steps, currentIndex)
     THEN UNCHANGED editorVars
     ELSE LET written == WriteBuffer(proc.steps, currentIndex, pendingPhotos, pendingTexts)
              done == [written EXCEPT ![currentIndex + 1].done = "true"]
              pushed == Append(done, NewStep(Len(done) + 1))
              steps == ensureIndices(pushed)
              buf == EffectBuffer(steps, currentIndex + 1, <<>>, <<>>)
          IN /\ process' = Some([proc EXCEPT !.steps = steps])
             /\ finalized' = FALSE
             /\ currentIndex' = currentIndex + 1
             /\ pendingPhotos' = buf.photos
             /\ pendingTexts' = buf.texts
             /\ editedSince' = TRUE
             /\ UNCHANGED lastSnapshot
  /\ UNCHANGED <<loadOutcome, pdfVars, verVars, imgVars>>

backStep ==
  /\ pc = "idle"
  /\ ~IsNull(process)
  /\ IF currentIndex = 0
     THEN UNCHANGED editorVars
     ELSE LET steps == ensureIndices(
                         WriteBuffer(proc.steps, currentIndex, pendingPhotos, pendingTexts))
              buf == EffectBuffer(steps, currentIndex - 1, pendingPhotos, pendingTexts)
          IN /\ process' = Some([proc EXCEPT !.steps = steps])
             /\ finalized' = FALSE
             /\ currentIndex' = currentIndex - 1
             /\ pendingPhotos' = buf.photos
             /\ pendingTexts' = buf.texts
             /\ editedSince' = TRUE
             /\ UNCHANGED lastSnapshot
  /\ UNCHANGED <<loadOutcome, pdfVars, verVars, imgVars>>

\* What finishProcess computes from the editor state, and the effect that
\* follows setProcess(draft).
FinishResult(pr, ci, pp, pt, snapOpt) ==
  LET written == WriteBuffer(pr.steps, ci, pp, pt)
      trimmed == IF Len(written) > 0 /\ StepEmpty(written[Len(written)])
                 THEN SubSeq(written, 1, Len(written) - 1)
                 ELSE written
      steps == ensureIndices(trimmed)
      snap == Snapshot(pr.name, steps)
      bump == IsNull(snapOpt) \/ snapOpt[1] # snap
      buf == EffectBuffer(steps, ci, pp, pt)
  IN [process |-> [pr EXCEPT !.steps = steps,
                             !.version = IF bump THEN bumpVersion(pr.version)
                                         ELSE pr.version],
      bumped |-> bump,
      lastSnapshot |-> Some(snap),
      pendingPhotos |-> buf.photos,
      pendingTexts |-> buf.texts]

finishProcess ==
  /\ pc = "idle"
  /\ ~IsNull(process)
  /\ LET r == FinishResult(proc, currentIndex, pendingPhotos, pendingTexts, lastSnapshot)
     IN /\ r.bumped => proc.version \in BumpReach(StartVersions, MaxBumps - 1)
        /\ process' = Some(r.process)
        /\ lastSnapshot' = r.lastSnapshot
        /\ pendingPhotos' = r.pendingPhotos
        /\ pendingTexts' = r.pendingTexts
  /\ finalized' = TRUE
  /\ editedSince' = FALSE
  /\ UNCHANGED <<currentIndex, loadOutcome, pdfVars, verVars, imgVars>>

\* One text item of a loaded file.
NormalText(t) ==
  [id |-> IF IsNull(t.id) THEN uid ELSE t.id[1],
   content |-> IF IsNull(t.content) THEN "" ELSE t.content[1],
   important |-> t.important = "true"]

\* One step of a loaded file, at 0-based position n.
NormalStep(st, n) ==
  [index |-> IF IsNull(st.index) THEN n + 1 ELSE st.index[1],
   photos |-> IF IsNull(st.photos) THEN <<>> ELSE st.photos[1],
   texts |-> IF IsNull(st.texts) THEN <<>>
             ELSE [k \in 1..Len(st.texts[1]) |-> NormalText(st.texts[1][k])],
   done |-> IF st.done = "true" THEN "true" ELSE "false"]

\* The check without its Array.isArray(obj.steps) part.
LoadRejects_mut(pl) == ~pl.parses \/ IsNull(pl.name) \/ pl.name = Some(<<>>)

\* if (!obj || !obj.name || !Array.isArray(obj.steps)), and the catch around
\* JSON.parse.
LoadRejects(pl) ==
  ~pl.parses \/ IsNull(pl.name) \/ pl.name = Some(<<>>) \/ IsNull(pl.steps)

\* The record loadProcess builds from a file it accepts.
Normalized(pl, now) ==
  LET raw == IF IsNull(pl.steps) THEN <<>> ELSE pl.steps[1]
  IN [name |-> pl.name[1],
      version |-> IF ~IsNull(pl.version) /\ VersionRegex(pl.version[1])
                  THEN pl.version[1] ELSE Str10,
      createdAt |-> IF IsNull(pl.createdAt) THEN now ELSE pl.createdAt[1],
      steps |-> ensureIndices([k \in 1..Len(raw) |-> NormalStep(raw[k], k - 1)])]

loadProcess(pl, now) ==
  /\ pc = "idle"
  /\ IF LoadRejects(pl)
     THEN /\ loadOutcome' = "rejected"
          /\ UNCHANGED editorVars
     ELSE LET normalized == Normalized(pl, now)
              buf == EffectBuffer(normalized.steps, 0, <<>>, <<>>)
          IN /\ process' = Some(normalized)
             /\ currentIndex' = 0
             /\ pendingPhotos' = buf.photos
             /\ pendingTexts' = buf.texts
             /\ lastSnapshot' = Null
             /\ finalized' = FALSE
             /\ editedSince' = TRUE
             /\ loadOutcome' = "accepted"
  /\ UNCHANGED <<pdfVars, verVars, imgVars>>

\* The file saveProcess writes, as JSON.parse reads it back: JSON.stringify
\* leaves out a field that is undefined.
saveProcess(pr) ==
  [parses |-> TRUE,
   name |-> Some(pr.name),
   version |-> Some(pr.version),
   createdAt |-> Some(pr.createdAt),
   steps |-> Some([k \in 1..Len(pr.steps) |->
                     [index |-> Some(pr.steps[k].index),
                      photos |-> Some(pr.steps[k].photos),
                      texts |-> Some([j \in 1..Len(pr.steps[k].texts) |->
                                        [id |-> Some(pr.steps[k].texts[j].id),
                                         content |-> Some(pr.steps[k].texts[j].content),
                                         important |->
                                           IF pr.steps[k].texts[j].important
                                           THEN "true" ELSE "false"]]),
                      done |-> pr.steps[k].done]])]

\* The record is saved and the file just written is loaded.
loadSaved(now) ==
  /\ ~IsNull(process)
  /\ loadProcess(saveProcess(proc), now)

\* ------------------------------------------------------ export: geometry
\* Hundredths of a point.  jsPDF's a4 page is 595.28 x 841.89 pt.
pageW == 59528
pageH == 84189
margin == 3600
contentW == pageW - margin * 2
A6W == 29764
A6H == 42094
maxImgW == Min2(A6W, contentW)
maxImgH == Min2(A6H, pageH - margin * 2)

\* The image behind a data URL, as the browser decodes it (pixels); "bad"
\* does not decode, so loadImage rejects.
loadImage(dataUrl) ==
  CASE dataUrl = "tall" -> [ok |-> TRUE, width |-> 500, height |-> 1000]
    [] dataUrl = "wide" -> [ok |-> TRUE, width |-> 1000, height |-> 500]
    [] OTHER -> [ok |-> FALSE, width |-> 0, height |-> 0]

\* Exact fractions n/d in lowest terms, for the quotients scaleDims forms.
RECURSIVE GCD(_, _)
GCD(a, b) == IF b = 0 THEN a ELSE GCD(b, a % b)

Frac(n, d) == [n |-> n \div GCD(n, d), d |-> d \div GCD(n, d)]

\* A length of this model (hundredths of a point) in points.
Pt(len) == Frac(len, 100)

\* A length in points back in hundredths of a point.
Hundredths(q) == (q.n * 100) \div q.d

\* q / k and k * q for a whole number k
FracDiv(q, k) == Frac(q.n \div GCD(q.n, k), q.d * (k \div GCD(q.n, k)))

FracMul(k, q) == Frac((k \div GCD(k, q.d)) * q.n, q.d \div GCD(k, q.d))

FracLe(a, b) == a.n * b.d <= b.n * a.d

FracMin(a, b) == IF FracLe(a, b) THEN a ELSE b

\* scaleDims without the 1 in Math.min: small images are blown up.
scaleDims_mut(img) ==
  LET sc == FracMin(FracDiv(Pt(maxImgW), img.width), FracDiv(Pt(maxImgH), img.height))
  IN [w |-> FracMul(img.width, sc), h |-> FracMul(img.height, sc)]

\* s = min(maxImgW / width, maxImgH / height, 1); { w: width * s, h: height * s }.
scaleDims(img) ==
  LET sc == FracMin(FracMin(FracDiv(Pt(maxImgW), img.width),
                            FracDiv(Pt(maxImgH), img.height)),
                    Frac(1, 1))
  IN [w |-> FracMul(img.width, sc), h |-> FracMul(img.height, sc)]

\* pdf.splitTextToSize(label + content, contentW).length
LineCount(content) ==
  CASE content = "long" -> 20
    [] content = "huge" -> 60
    [] OTHER -> 1

\* The cursor of the placement pass: y, the current page, the page count.
Cursor(yy, pg, n) == [y |-> yy, page |-> pg, pages |-> n]

addPage(cur) == Cursor(margin, cur.pages + 1, cur.pages + 1)

spaceLeft(cur) == pageH - margin - cur.y

\* Mutant: the page break is left out.
ensureSpace_mut(cur, needed) == cur

ensureSpace(cur, needed) == IF spaceLeft(cur) < needed THEN addPage(cur) ELSE cur

\* for (li ...) { pdf.text(lines[li], margin, y); y += 14; }
RECURSIVE DrawLines(_, _)
DrawLines(cur, n) ==
  IF n = 0 THEN cur ELSE DrawLines([cur EXCEPT !.y = cur.y + 1400], n - 1)

\* Mutant: a failed image leaves the gap the reserve assumed for it.
OnImageError_mut(cur) == [cur EXCEPT !.y = cur.y + 12000]

\* catch { /* skip the image */ }: the cursor stays where it is.
OnImageError(cur) == cur

\* Reserve for the heading and, if there is one, the first image.
Reserve(step) ==
  2000 + (IF Len(step.photos) > 0
          THEN (IF loadImage(step.photos[1]).ok
                THEN Hundredths(scaleDims(loadImage(step.photos[1])).h) + 1200
                ELSE 12000)
          ELSE 4000)

\* One drawing call: a and b are the step index and item number of a label
\* (the page and the total of a footer), h the height the block takes.
Op(kind, a, b, content, from, to, h, col, fnt) ==
  [kind |-> kind, a |-> a, b |-> b, content |-> content, page |-> from.page,
   pageLast |-> to.page, y |-> from.y, h |-> h, color |-> col, font |-> fnt]

HeadingFont == "bold"

ImportantColor == "red"

\* pdf.setTextColor / pdf.setFont of the text loop.
TextColor(t) == IF t.important THEN ImportantColor ELSE "black"
TextFont(t) == IF t.important THEN "bold" ELSE "normal"

\* Mutant: the item number is the 0-based position.
Label_mut(step, n) == [a |-> step.index, b |-> n]

\* `${step.index}.${i + 1} `, for the item at 0-based position n.
Label(step, n) == [a |-> step.index, b |-> n + 1]

\* Mutant: the total is taken to be the page itself.
FooterRight_mut(pg, tot) == [a |-> pg, b |-> pg]

\* `Seite ${p} von ${total}`
FooterRight(pg, tot) == [a |-> pg, b |-> tot]

\* ------------------------------------------------------- export: handler
cur == Cursor(y, page, pages)

SetCursor(c) == y' = c.y /\ page' = c.page /\ pages' = c.pages

PdfIdle ==
  /\ pc = "idle" /\ s = 0 /\ p = 0 /\ i = 0 /\ y = 0 /\ page = 0 /\ pages = 0
  /\ total = 0 /\ color = "black" /\ font = "normal" /\ ops = <<>>

\* The entry check, new jsPDF(), and the title block (name, created/version
\* line, rule).
exportPDF ==
  /\ pc = "idle"
  /\ IF IsNull(process) \/ ~finalized
     THEN UNCHANGED pdfVars
     ELSE LET c0 == Cursor(margin, 1, 1)
              c1 == [c0 EXCEPT !.y = margin + 1800]
          IN /\ ops' = <<Op("title", 0, 0, "", c0, c0, 1800, "black", "bold"),
                         Op("meta", 0, 0, "", c1, c1, 1400, "black", "normal")>>
             /\ SetCursor([c1 EXCEPT !.y = c1.y + 1400 + 1000])
             /\ color' = "black"
             /\ font' = "normal"
             /\ pc' = "step"
             /\ s' = 1
             /\ UNCHANGED <<p, i, total>>
  /\ UNCHANGED <<editorVars, loadOutcome, verVars, imgVars>>

\* The head of the step loop: the loop test, the skip of an empty step, the
\* reserve (which awaits the first image) and the heading.
StepLoop ==
  /\ pc = "step"
  /\ IF s > Len(proc.steps)
     THEN /\ pc' = "footer"
          /\ total' = pages
          /\ p' = 1
          /\ UNCHANGED <<s, i, y, page, pages, color, font, ops>>
     ELSE LET step == proc.steps[s]
          IN IF StepEmpty(step)
             THEN /\ s' = s + 1
                  /\ UNCHANGED <<pc, p, i, y, page, pages, total, color, font, ops>>
             ELSE LET c == IF spaceLeft(cur) < Reserve(step) THEN addPage(cur) ELSE cur
                  IN /\ ops' = Append(ops, Op("heading", step.index, 0, "", c, c, 2000,
                                              color, HeadingFont))
                     /\ SetCursor([c EXCEPT !.y = c.y + 2000])
                     /\ font' = HeadingFont
                     /\ pc' = "image"
                     /\ p' = 1
                     /\ UNCHANGED <<s, i, total, color>>
  /\ UNCHANGED <<editorVars, loadOutcome, verVars, imgVars>>

\* One turn of the image loop (one await of loadImage), or its exit.
ImageLoop ==
  /\ pc = "image"
  /\ LET step == proc.steps[s]
     IN IF p > Len(step.photos)
        THEN /\ font' = "normal"
             /\ pc' = "text"
             /\ i' = 1
             /\ UNCHANGED <<s, p, y, page, pages, total, color, ops>>
        ELSE LET im == loadImage(step.photos[p])
             IN /\ p' = p + 1
                /\ IF im.ok
                   THEN LET q == scaleDims(im)
                            d == [w |-> Hundredths(q.w), h |-> Hundredths(q.h)]
                            c == ensureSpace(cur, d.h)
                        IN /\ ops' = Append(ops, Op("image", step.index, p, step.photos[p],
                                                    c, c, d.h, color, font))
                           /\ SetCursor([c EXCEPT !.y = c.y + d.h + 1200])
                   ELSE SetCursor(OnImageError(cur)) /\ UNCHANGED ops
                /\ UNCHANGED <<pc, s, i, total, color, font>>
  /\ UNCHANGED <<editorVars, loadOutcome, verVars, imgVars>>

\* One turn of the text loop, or its exit and the gap that ends the step.
TextLoop ==
  /\ pc = "text"
  /\ LET step == proc.steps[s]
     IN IF i > Len(step.texts)
        THEN /\ y' = y + 600
             /\ s' = s + 1
             /\ pc' = "step"
             /\ UNCHANGED <<p, i, page, pages, total, color, font, ops>>
        ELSE LET t == step.texts[i]
                 n == LineCount(t.content)
                 blockHeight == n * 1400 + 600
                 c == ensureSpace(cur, blockHeight)
                 after == DrawLines(c, n)
                 lab == Label(step, i - 1)
             IN /\ color' = TextColor(t)
                /\ font' = TextFont(t)
                /\ ops' = Append(ops, Op("text", lab.a, lab.b, t.content, c, after,
                                         blockHeight, TextColor(t), TextFont(t)))
                /\ SetCursor([after EXCEPT !.y = after.y + 600])
                /\ i' = i + 1
                /\ UNCHANGED <<pc, s, p, total>>
  /\ UNCHANGED <<editorVars, loadOutcome, verVars, imgVars>>

\* One turn of the footer loop (setPage, setFont, the three fields), or its exit.
FooterLoop ==
  /\ pc = "footer"
  /\ IF p > total
     THEN /\ pc' = "save"
          /\ UNCHANGED <<s, p, i, y, page, pages, total, color, font, ops>>
     ELSE LET c == Cursor(pageH - 1600, p, pages)
              r == FooterRight(p, total)
          IN /\ page' = p
             /\ font' = "normal"
             /\ ops' = Append(ops, Op("footer", r.a, r.b, "", c, c, 0, color, "normal"))
             /\ p' = p + 1
             /\ UNCHANGED <<pc, s, i, y, pages, total, color>>
  /\ UNCHANGED <<editorVars, loadOutcome, verVars, imgVars>>

\* pdf.save(file): the document leaves, and with it the handler's locals.
SavePdf ==
  /\ pc = "save"
  /\ pc' = "idle" /\ s' = 0 /\ p' = 0 /\ i' = 0 /\ y' = 0 /\ page' = 0 /\ pages' = 0
  /\ total' = 0 /\ color' = "black" /\ font' = "normal" /\ ops' = <<>>
  /\ UNCHANGED <<editorVars, loadOutcome, verVars, imgVars>>

\* -------------------------------------------------- the version helpers
VerChars == {"0", "1", "9", ".", "v"}

VerStrings == UNION {[1..n -> VerChars] : n \in 0..MaxVerLen}

VerIdle == vIn = <<>> /\ vOut = <<>> /\ vBumps = 0

\* bumpVersion applied to the last result.
BumpCall ==
  /\ vBumps < MaxVerBumps
  /\ vIn' = vOut
  /\ vOut' = bumpVersion(vOut)
  /\ vBumps' = vBumps + 1
  /\ UNCHANGED <<editorVars, loadOutcome, pdfVars, imgVars>>

\* scaleDims called on the image.
ScaleCall ==
  /\ IsNull(dims)
  /\ dims' = Some(scaleDims(image))
  /\ UNCHANGED <<editorVars, loadOutcome, pdfVars, verVars, image>>

\* ------------------------------------------------------- specifications
EditorIdle ==
  /\ process = Null /\ currentIndex = 0 /\ pendingPhotos = <<>> /\ pendingTexts = <<>>
  /\ lastSnapshot = Null /\ finalized = FALSE /\ editedSince = FALSE
  /\ loadOutcome = "none"

ScaleIdle == image = [width |-> 1, height |-> 1] /\ dims = Null

\* The editor as the page loads.
Init == EditorIdle /\ PdfIdle /\ VerIdle /\ ScaleIdle

\* The finalized records the export is run on: up to MaxPdfSteps steps holding
\* up to MaxBlocks photos and texts in all, empty steps included.
PdfPhotos == {"tall", "wide", "bad"}
PdfContents == {"long", "huge"}
PdfTexts == [content : PdfContents, important : BOOLEAN]

SeqsUpTo(S, n) == UNION {[1..m -> S] : m \in 0..n}

StepShapes(n) ==
  UNION {{[photos |-> ps, texts |-> ts] : ts \in SeqsUpTo(PdfTexts, n - Len(ps))} :
           ps \in SeqsUpTo(PdfPhotos, n)}

RECURSIVE RecordShapes(_, _)
RecordShapes(k, n) ==
  IF k = 0 THEN {<<>>}
  ELSE {<<>>} \cup
       UNION {{<<sh>> \o rest :
                 rest \in RecordShapes(k - 1, n - Len(sh.photos) - Len(sh.texts))} :
                sh \in StepShapes(n)}

PdfStep(shapes, k) ==
  [index |-> k,
   photos |-> shapes[k].photos,
   texts |-> [j \in 1..Len(shapes[k].texts) |->
                [id |-> j, content |-> shapes[k].texts[j].content,
                 important |-> shapes[k].texts[j].important]],
   done |-> IF k < Len(shapes) THEN "true" ELSE "undefined"]

PdfRecord(shapes) ==
  [name |-> <<"P">>, version |-> <<"1", ".", "1">>, createdAt |-> "t1",
   steps |-> [k \in 1..Len(shapes) |-> PdfStep(shapes, k)]]

\* The editor right after finishProcess, cursor on the first step.
InitPdf ==
  /\ \E shapes \in RecordShapes(MaxPdfSteps, MaxBlocks) :
       LET r == PdfRecord(shapes)
           buf == EffectBuffer(r.steps, 0, <<>>, <<>>)
       IN /\ process = Some(r)
          /\ pendingPhotos = buf.photos
          /\ pendingTexts = buf.texts
          /\ lastSnapshot = Some(Snapshot(r.name, r.steps))
  /\ currentIndex = 0
  /\ finalized = TRUE
  /\ editedSince = FALSE
  /\ loadOutcome = "none"
  /\ PdfIdle
  /\ VerIdle
  /\ ScaleIdle

\* The version helpers, on every short string over VerChars.
InitVer ==
  /\ EditorIdle
  /\ PdfIdle
  /\ vIn = <<>>
  /\ vOut \in VerStrings
  /\ vBumps = 0
  /\ ScaleIdle

\* Widths and heights of decoded images, in pixels: below, at and above the
\* two limits of 297.64 and 420.94.
ImgSides == {1, 7, 100, 297, 298, 420, 421, 500, 600, 1000, 1999}

\* scaleDims on every image of these sizes.
InitScale ==
  /\ EditorIdle
  /\ PdfIdle
  /\ VerIdle
  /\ image \in [width : ImgSides, height : ImgSides]
  /\ dims = Null

PdfNext == exportPDF \/ StepLoop \/ ImageLoop \/ TextLoop \/ FooterLoop \/ SavePdf

Next ==
  \/ \E nm \in NameInputs, v \in VersionInputs, now \in Times : startNew(nm, v, now)
  \/ \E d \in EditorDrafts, imp \in BOOLEAN : addText(d, imp)
  \/ \E k \in 1..Len(pendingTexts) : removeText(pendingTexts[k].id)
  \/ \E k \in 1..Len(pendingTexts) : toggleImportant(pendingTexts[k].id)
  \/ \E u \in EditorPhotos : onPhotoUpload(<<u>>)
  \/ \E n \in 1..Len(pendingPhotos) : removePhotoAt(n)
  \/ finishStep
  \/ backStep
  \/ finishProcess
  \/ \E pl \in LoadPayloads, now \in Times : loadProcess(pl, now)
  \/ \E now \in Times : loadSaved(now)
  \/ PdfNext

Spec == Init /\ [][Next]_vars

\* The export alone, on a finalized record.
SpecPdf == InitPdf /\ [][PdfNext]_vars

\* The version helpers alone.
SpecVer == InitVer /\ [][BumpCall]_vars

\* scaleDims alone.
SpecScale == InitScale /\ [][ScaleCall]_vars

\* ================================================================ claims

\* C1 (as claimed): finalization is idempotent.  A finishProcess that follows a
\* completed finishProcess with no edit in between (finalized and no edit
\* since) leaves the record's version and steps as they are.
C1_FinishIdempotent ==
  [][(finishProcess /\ finalized /\ ~editedSince)
       => (process'[1].version = proc.version /\ process'[1].steps = proc.steps)]_vars

\* C2 (as claimed): export is gated on finalization since the last edit.  An
\* export is drawing only when no edit (addText, removeText, toggleImportant,
\* onPhotoUpload, removePhotoAt, finishStep, backStep, startNew, loadProcess)
\* has happened since finishProcess last completed.
C2_ExportOnlyAfterFinish == (pc # "idle") => ~editedSince

\* C5 (as claimed): whenever a process record exists, its version matches
\* ^\d+\.\d+$.
C5_VersionFormat == ~IsNull(process) => VersionRegex(proc.version)

\* The integer parts of a version string "M.m".
MajorOf(v) == parseInt(SubSeq(v, 1, (CHOOSE d \in DotSplits(v) : TRUE) - 1))
MinorOf(v) == parseInt(SubSeq(v, (CHOOSE d \in DotSplits(v) : TRUE) + 1, Len(v)))

\* C6 (as claimed): for every version string "M.m", bumpVersion returns
\* "M.(m+1)" when m < 9 and "(M+1).0" when m = 9.
C6_BumpArithmetic ==
  (vBumps > 0 /\ VersionRegex(vIn)) =>
    /\ MinorOf(vIn) < 9 => vOut = FormatVersion(MajorOf(vIn), MinorOf(vIn) + 1)
    /\ MinorOf(vIn) = 9 => vOut = FormatVersion(MajorOf(vIn) + 1, 0)

\* ------------------------------------------------------ claims: the export
ContentH == pageH - margin * 2

IsBlock(op) == op.kind \in {"image", "text"}

FitsPage(op) == op.y >= margin /\ op.y + op.h <= pageH - margin

\* C3 (as claimed): every drawn image and every text item's group of lines
\* lies on one page and inside its content area, except an image whose scaled
\* height exceeds a full page.
C3_AtomicPlacement ==
  \A k \in 1..Len(ops) :
    IsBlock(ops[k]) =>
      \/ ops[k].page = ops[k].pageLast /\ FitsPage(ops[k])
      \/ ops[k].kind = "image" /\ ops[k].h > ContentH

\* C3 (amended): every drawn image and every text item's group of lines lies
\* on one page; every image, and every text item whose block (14 pt a line
\* plus 6 pt) is no taller than the content area, lies inside the content
\* area; a taller text item starts at the top of a fresh page and runs over
\* its bottom margin.  No scaled image is taller than the content area.
C3_AtomicPlacementAmended ==
  \A k \in 1..Len(ops) :
    IsBlock(ops[k]) =>
      /\ ops[k].page = ops[k].pageLast
      /\ ops[k].kind = "image" => (ops[k].h <= ContentH /\ FitsPage(ops[k]))
      /\ (ops[k].kind = "text" /\ ops[k].h <= ContentH) => FitsPage(ops[k])
      /\ (ops[k].kind = "text" /\ ops[k].h > ContentH) =>
           (ops[k].y = margin /\ ops[k].page > 1)

\* C3 witness: a block that did not fit the rest of its page was moved whole
\* to the top of the next page, and a text item taller than the content area
\* was drawn.
C3_Witness ==
  /\ \E k \in 1..Len(ops) :
       /\ IsBlock(ops[k]) /\ ops[k].h <= ContentH
       /\ ops[k].page > 1 /\ ops[k].y = margin
  /\ \E k \in 1..Len(ops) : ops[k].kind = "text" /\ ops[k].h > ContentH

\* C4 (as claimed): a step's heading and the first content block drawn for
\* the step (the block drawn right after the heading) are on the same page.
C4_HeadingNotOrphaned ==
  \A k \in 1..(Len(ops) - 1) :
    (ops[k].kind = "heading" /\ IsBlock(ops[k + 1]) /\ ops[k + 1].a = ops[k].a)
      => ops[k + 1].page = ops[k].page

FooterOps == {k \in 1..Len(ops) : ops[k].kind = "footer"}

\* C7: no footer is drawn before the step loop has ended (the last content
\* block is placed); nothing but footers is drawn after the first footer; the
\* footer pass adds no page; and when the export reaches pdf.save, every page
\* p of 1..T carries exactly one footer, which reads "p of T", T being the
\* number of pages of the document.
C7_FooterPass ==
  /\ FooterOps # {} => (pc \in {"footer", "save"} /\ s > Len(proc.steps))
  /\ \A k \in FooterOps : \A j \in 1..Len(ops) : j > k => j \in FooterOps
  /\ pc \in {"footer", "save"} => (pages = total /\ pages >= 1)
  /\ \A k \in FooterOps : ops[k].page \in 1..pages
  /\ pc = "save" =>
       \A pg \in 1..pages :
         /\ Cardinality({k \in FooterOps : ops[k].page = pg}) = 1
         /\ \A k \in FooterOps : ops[k].page = pg => (ops[k].a = pg /\ ops[k].b = pages)

\* C7 witness: an export of several pages is about to be saved.
C7_Witness == pc = "save" /\ pages >= 2 /\ Cardinality(FooterOps) >= 2

\* What a drawing call shows, without its place on the page.
Shown(op) == [kind |-> op.kind, a |-> op.a, b |-> op.b, content |-> op.content]

ShownOf(kinds) == 
  LET RECURSIVE F(_)
      F(q) == IF q = <<>> THEN <<>>
              ELSE (IF Head(q).kind \in kinds THEN <<Shown(Head(q))>> ELSE <<>>)
                     \o F(Tail(q))
  IN F(ops)

Decodes(url) == loadImage(url).ok

\* The images and texts of one step in the order of the record, the photos
\* that do not decode left out.
RECURSIVE StepImages(_, _)
StepImages(step, n) ==
  IF n > Len(step.photos) THEN <<>>
  ELSE (IF Decodes(step.photos[n])
        THEN <<[kind |-> "image", a |-> step.index, b |-> n, content |-> step.photos[n]]>>
        ELSE <<>>) \o StepImages(step, n + 1)

StepTexts(step) ==
  [n \in 1..Len(step.texts) |->
     [kind |-> "text", a |-> step.index, b |-> n, content |-> step.texts[n].content]]

RECURSIVE BlocksFrom(_)
BlocksFrom(k) ==
  IF k > Len(proc.steps) THEN <<>>
  ELSE StepImages(proc.steps[k], 1) \o StepTexts(proc.steps[k]) \o BlocksFrom(k + 1)

AtBadImage ==
  /\ pc = "image"
  /\ p <= Len(proc.steps[s].photos)
  /\ ~Decodes(proc.steps[s].photos[p])

\* C8: a photo whose loading fails draws nothing, leaves y where it is and
\* starts no page, and the image loop goes on with the next photo of the same
\* step (the export is not aborted); and once the step loop has ended, on the
\* way to the footer pass and pdf.save, every other image and every text item
\* of the record has been drawn, in the record's order.
C8_UndecodableSkipped ==
  /\ [][AtBadImage =>
          (ops' = ops /\ y' = y /\ page' = page /\ pages' = pages
             /\ pc' = "image" /\ p' = p + 1 /\ s' = s)]_vars
  /\ [](pc \in {"footer", "save"} => ShownOf({"image", "text"}) = BlocksFrom(1))

\* C8 witness: a step with a photo that does not decode, followed by a photo
\* that does, and with a text, has been exported up to pdf.save.
C8_Witness ==
  /\ pc = "save"
  /\ \E k \in 1..Len(proc.steps) :
       /\ Len(proc.steps[k].photos) >= 2
       /\ ~Decodes(proc.steps[k].photos[1])
       /\ Decodes(proc.steps[k].photos[2])
       /\ Len(proc.steps[k].texts) >= 1

\* What the claim has one step draw: nothing for a step without photos and
\* texts; else the heading, the images in photo order, the texts in order,
\* the i-th (0-based) labelled "<stepIndex>.<i+1> ".
StepDrawing(step) ==
  IF Len(step.photos) = 0 /\ Len(step.texts) = 0 THEN <<>>
  ELSE <<[kind |-> "heading", a |-> step.index, b |-> 0, content |-> ""]>>
         \o StepImages(step, 1)
         \o [n \in 1..Len(step.texts) |->
               [kind |-> "text", a |-> step.index, b |-> (n - 1) + 1,
                content |-> step.texts[n].content]]

RECURSIVE DrawingFrom(_)
DrawingFrom(k) ==
  IF k > Len(proc.steps) THEN <<>>
  ELSE StepDrawing(proc.steps[k]) \o DrawingFrom(k + 1)

IsPrefix(a, b) == Len(a) <= Len(b) /\ SubSeq(b, 1, Len(a)) = a

\* C9: what the step loop has drawn (headings, images, texts) is at every
\* moment a prefix of the record's drawing (steps in array order; an empty
\* step nothing; else one heading, then the images in photo order, then the
\* texts in order with their labels), and all of it once the loop has ended.
C9_DrawingOrder ==
  pc # "idle" =>
    /\ IsPrefix(ShownOf({"heading", "image", "text"}), DrawingFrom(1))
    /\ pc \in {"footer", "save"} =>
         ShownOf({"heading", "image", "text"}) = DrawingFrom(1)

\* C9 witness: a record of two steps with content, one of them with an image
\* and a text, has been drawn to the end.
C9_Witness ==
  /\ pc = "save"
  /\ Len(proc.steps) = 2
  /\ \A k \in 1..2 : ~StepEmpty(proc.steps[k])
  /\ \E k \in 1..2 :
       /\ Len(proc.steps[k].texts) >= 1
       /\ \E n \in 1..Len(proc.steps[k].photos) : Decodes(proc.steps[k].photos[n])

\* The importance flag of the text item a text drawing call shows.
ImportantOf(op) == proc.steps[op.a].texts[op.b].important

\* C10 (as claimed): every heading, every text item that is not important and
\* every footer is drawn in the normal colour.
C10_EmphasisConfined ==
  \A k \in 1..Len(ops) :
    (\/ ops[k].kind \in {"heading", "footer"}
     \/ (ops[k].kind = "text" /\ ~ImportantOf(ops[k])))
      => ops[k].color = "black"


\* C11 (as claimed): save/load round trip.  Loading the file saveProcess has
\* just written gives a record equal to the saved one in name, createdAt,
\* step order and indices, photos, text items (id, content, important) and
\* done flags; the version is the saved one when that has the form
\* digits.digits and "1.0" otherwise.
SameStep(a, b) ==
  /\ a.index = b.index
  /\ a.photos = b.photos
  /\ a.texts = b.texts
  /\ a.done = b.done

SameRecord(a, b) ==
  /\ a.name = b.name
  /\ a.createdAt = b.createdAt
  /\ Len(a.steps) = Len(b.steps)
  /\ \A k \in 1..Len(a.steps) : SameStep(a.steps[k], b.steps[k])

RoundTripVersion(loaded, saved) ==
  IF VersionRegex(saved.version) THEN loaded.version = saved.version
  ELSE loaded.version = Str10

C11_RoundTrip ==
  [][\A now \in Times :
       loadSaved(now) =>
         /\ ~IsNull(process')
         /\ SameRecord(process'[1], proc)
         /\ RoundTripVersion(process'[1], proc)]_vars

\* C12: a failed load preserves the state.  A loadProcess call on a file that
\* does not parse, has no name, or whose steps is not a sequence leaves
\* process, currentIndex, pendingPhotos, pendingTexts, lastSnapshot and
\* finalized exactly as they were.
Malformed(pl) == ~pl.parses \/ IsNull(pl.name) \/ IsNull(pl.steps)

C12_FailedLoadPreserves ==
  [][\A pl \in LoadPayloads, now \in Times :
       (Malformed(pl) /\ loadProcess(pl, now)) =>
         UNCHANGED <<process, currentIndex, pendingPhotos, pendingTexts,
                     lastSnapshot, finalized>>]_vars

\* A load has just been refused while a finalized record with a filled
\* buffer was in the editor.
C12_Witness ==
  /\ loadOutcome = "rejected"
  /\ ~IsNull(process)
  /\ finalized
  /\ ~IsNull(lastSnapshot)
  /\ Len(pendingPhotos) > 0
  /\ Len(pendingTexts) > 0

\* C13: step index invariant.  Whenever there is a record, the step at
\* position k (1-based here, k - 1 in the code) has index k.
C13_StepIndices ==
  ~IsNull(process) => \A k \in 1..Len(proc.steps) : proc.steps[k].index = k

\* A two-step record loaded from a file whose steps carried no index and the
\* index 7, finalized afterwards.
C13_Witness ==
  /\ ~IsNull(process)
  /\ loadOutcome = "accepted"
  /\ proc.createdAt = "t0"
  /\ Len(proc.steps) = 2
  /\ finalized



C15_BufferCarried ==
  [][(finishProcess /\ (Len(pendingPhotos) > 0 \/ Len(pendingTexts) > 0)) =>
       /\ HasStep(process'[1].steps, currentIndex)
       /\ process'[1].steps[currentIndex + 1].photos = pendingPhotos
       /\ process'[1].steps[currentIndex + 1].texts = pendingTexts]_vars

\* C16 (as claimed): editor cursor validity.  Whenever there is a record,
\* currentIndex is a position of process.steps.
C16_CursorValid == ~IsNull(process) => HasStep(proc.steps, currentIndex)

\* C17 (as claimed): no placeholder step survives finalization.  The record
\* finishProcess leaves has no step whose photos and texts are both empty.
C17_NoPlaceholder ==
  [][finishProcess =>
       \A k \in 1..Len(process'[1].steps) : ~StepEmpty(process'[1].steps[k])]_vars


====
